---- MODULE Spec2Model ----
(***************************************************************************)
(* Model of the streamer relay (src/main.go): the handler registered in    *)
(* main(), its POST (upload) branch and its GET (download) branch, the     *)
(* clients map guarded by clientsRWMutex, and the two unbuffered channels  *)
(* of a client (clientConnected, downloadCompleted).                       *)
(*                                                                         *)
(* Every request is served by its own goroutine.  A step of the model is   *)
(* one atomic piece of a handler: a critical section that only touches the *)
(* map, a single unlocked read or write of a client field, a channel       *)
(* rendezvous (send and receive of an unbuffered channel complete          *)
(* together), or a local step.  The fields of a client are read without    *)
(* the mutex in several places (lines 172, 176, 177, 193, 209), so the     *)
(* writes of the GET branch's critical section (lines 194-198) are separate*)
(* steps: an unlocked reader can run between them.  A racy read returns    *)
(* the value before or after the racing write, which is what the           *)
(* interleaving of the read step and the write step gives.                 *)
(***************************************************************************)
EXTENDS Integers, Sequences, FiniteSets, TLC

\* Bounds of the model.
NumUploads == 2
NumDownloads == 2
NumTokens == 2
MaxBody == 2

\* const bufferSize = 1 << 15
bufferSize == 32768

\* nil: the zero value of a pointer, a channel or a missing map entry.
None == 0

Uploads == 1..NumUploads
Downloads == 1..NumDownloads
\* The file IDs the generator can produce (seeded from the clock).
Tokens == 1..NumTokens
\* The bytes that follow the request header on the upload connection.
Body == [i \in 1..MaxBody |-> i]
\* r.ContentLength as declared by the uploader: less than, equal to or more
\* than the bytes the connection delivers.
ContentLengths == 0..(MaxBody + 1)

VARIABLES
    clients,  \* clients map: file ID -> client (None: no entry)
    mutex,    \* clientsRWMutex: the download flow holding the write lock, or None
    heap,     \* the client structs, named by the upload flow that allocates them
    up,       \* locals and response of each upload (POST) flow
    down      \* locals and response of each download (GET) flow

vars == <<clients, mutex, heap, up, down>>

Min(a, b) == IF a < b THEN a ELSE b

\* &client{clientConnected: receiverCh, fileName: fileName}
NewClient == [receiving |-> FALSE, receiver |-> None, downloadCompleted |-> None]

Init ==
    /\ clients = [t \in Tokens |-> None]
    /\ mutex = None
    /\ heap = [u \in Uploads |-> NewClient]
    /\ up = [u \in Uploads |->
               [pc |-> "start", fileID |-> None, length |-> 0, nread |-> 0,
                w |-> <<>>, buf |-> <<>>, size |-> 0, emitted |-> FALSE,
                peer |-> None, dst |-> None, ch |-> None,
                outcome |-> "none", removals |-> 0]]
    /\ down = [d \in Downloads |->
               [pc |-> "lookup", fileName |-> None, client |-> None,
                ch |-> None, result |-> "none", header |-> None,
                bytes |-> <<>>]]

----------------------------------------------------------------------------
\* The registry operations on the clients map.

\* _, ok = clients[fileID]
Exists(reg, t) == reg[t] # None

\* clients[fileID] = newClient
Register(reg, t, c) == [reg EXCEPT ![t] = c]

\* delete(clients, fileID)
Delete(reg, t) == [reg EXCEPT ![t] = None]

----------------------------------------------------------------------------
\* The response wrapper of an upload flow (responseLogWriter over the
\* hijacked connection's bufio.Writer).  r is the flow's record: r.size is
\* the wrapper's size field, r.emitted tells whether WriteHeaderNow passed
\* the status on, r.buf holds the messages written and not yet flushed, r.w
\* the messages that reached the connection.

\* noWritten = -1
noWritten == -1

\* The number of bytes of a message (those of the link, of the success line
\* and of the error text depend on the names; one length stands for each).
MsgLen(m) ==
    CASE m = "link" -> 60
      [] m = "connected" -> 18
      [] m = "disconnected" -> 22
      [] m = "timedout" -> 47
      [] m = "success" -> 40
      [] m = "error" -> 10

\* &responseLogWriter{body: bufrw.Writer, header: make(http.Header)}: status
\* and size are left at their zero value.
NewWrapper(r) == [r EXCEPT !.size = 0, !.emitted = FALSE, !.buf = <<>>]

\* func (c *responseLogWriter) Written() bool
Written(r) == r.size # noWritten

\* func (c *responseLogWriter) Size() int
Size(r) == r.size

\* func (w *responseLogWriter) WriteHeaderNow()
WriteHeaderNow(r) ==
    IF ~Written(r) THEN [r EXCEPT !.size = 0, !.emitted = TRUE] ELSE r

\* func (w *responseLogWriter) Write(data []byte)
Write(r, m) ==
    [WriteHeaderNow(r) EXCEPT !.buf = Append(@, m), !.size = @ + MsgLen(m)]

\* Flush that leaves the written messages in the buffer.
FlushNothing(r) == r

\* bufrw.Flush() / bufrw.Writer.Flush()
Flush(r) == [r EXCEPT !.w = @ \o r.buf, !.buf = <<>>]

----------------------------------------------------------------------------
\* Upload (POST) flow.

\* UUnauthorized with the credentials tested after the registration.
UUnauthorizedAfterRegister(u) ==
    /\ up[u].pc = "start"
    /\ \E t \in Tokens : clients' = Register(clients, t, u)
    /\ up' = [up EXCEPT ![u].pc = "done", ![u].outcome = "Unauthorized"]
    /\ UNCHANGED <<mutex, heap, down>>

\* BasicAuth check fails: 401, nothing else happens.
UUnauthorized(u) ==
    /\ up[u].pc = "start"
    /\ up' = [up EXCEPT ![u].pc = "done", ![u].outcome = "Unauthorized"]
    /\ UNCHANGED <<clients, mutex, heap, down>>

\* rng.Read returns an error: 400, nothing else happens.
UTokenError(u) ==
    /\ up[u].pc = "start"
    /\ up' = [up EXCEPT ![u].pc = "done", ![u].outcome = "TokenError"]
    /\ UNCHANGED <<clients, mutex, heap, down>>

\* Credentials pass and a file ID is generated from the clock.
UGenerate(u) ==
    /\ up[u].pc = "start"
    /\ \E t \in Tokens :
          up' = [up EXCEPT ![u].pc = "check", ![u].fileID = t]
    /\ UNCHANGED <<clients, mutex, heap, down>>

\* RLock; _, ok = clients[fileID]; RUnlock; ok: "File already exists."
UExists(u) ==
    /\ up[u].pc = "check"
    /\ mutex = None
    /\ Exists(clients, up[u].fileID)
    /\ up' = [up EXCEPT ![u].pc = "done", ![u].outcome = "Exists"]
    /\ UNCHANGED <<clients, mutex, heap, down>>

\* RLock; _, ok = clients[fileID]; RUnlock; !ok: go on to register.
UCheckOk(u) ==
    /\ up[u].pc = "check"
    /\ mutex = None
    /\ ~Exists(clients, up[u].fileID)
    /\ up' = [up EXCEPT ![u].pc = "register"]
    /\ UNCHANGED <<clients, mutex, heap, down>>

\* Lock; newClient := ...; clients[fileID] = newClient; defer delete; Unlock
URegister(u) ==
    /\ up[u].pc = "register"
    /\ mutex = None
    /\ clients' = Register(clients, up[u].fileID, u)
    /\ heap' = [heap EXCEPT ![u] = NewClient]
    /\ up' = [up EXCEPT ![u].pc = "hijack"]
    /\ UNCHANGED <<mutex, down>>

\* The connection cannot be hijacked: http.Error and return (deferred delete).
UHijackFail(u) ==
    /\ up[u].pc = "hijack"
    /\ up' = [up EXCEPT ![u].pc = "delete", ![u].outcome = "HijackFailed"]
    /\ UNCHANGED <<clients, mutex, heap, down>>

\* Hijack succeeds: w = &responseLogWriter{...} wraps the connection.
UHijack(u) ==
    /\ up[u].pc = "hijack"
    /\ up' = [up EXCEPT ![u] = NewWrapper([@ EXCEPT !.pc = "link"])]
    /\ UNCHANGED <<clients, mutex, heap, down>>

\* The status line and the download link are written and flushed.
ULink(u) ==
    /\ up[u].pc = "link"
    /\ up' = [up EXCEPT ![u] = Flush(Write([@ EXCEPT !.pc = "select"], "link"))]
    /\ UNCHANGED <<clients, mutex, heap, down>>

\* select, case <-receiverCh, together with the download flow's
\* client.clientConnected <- true on the same client.
Pair(u, d) ==
    /\ up[u].pc = "select"
    /\ down[d].pc = "send"
    /\ down[d].client = u
    /\ up' = [up EXCEPT ![u] =
                Flush(Write([@ EXCEPT !.pc = "header", !.peer = d], "connected"))]
    /\ down' = [down EXCEPT ![d].pc = "wait"]
    /\ UNCHANGED <<clients, mutex, heap>>

\* select, case <-r.Context().Done()
UDisconnected(u) ==
    /\ up[u].pc = "select"
    /\ up' = [up EXCEPT ![u] =
                Flush(Write([@ EXCEPT !.pc = "delete", !.outcome = "Cancelled"],
                            "disconnected"))]
    /\ UNCHANGED <<clients, mutex, heap, down>>

\* UTimeout with the removal not deferred: the handler returns at once.
UTimeoutNoDelete(u) ==
    /\ up[u].pc = "select"
    /\ up' = [up EXCEPT ![u] =
                Flush(Write([@ EXCEPT !.pc = "done", !.outcome = "TimedOut"],
                            "timedout"))]
    /\ UNCHANGED <<clients, mutex, heap, down>>

\* select, case <-time.After(120 * time.Second)
UTimeout(u) ==
    /\ up[u].pc = "select"
    /\ up' = [up EXCEPT ![u] =
                Flush(Write([@ EXCEPT !.pc = "delete", !.outcome = "TimedOut"],
                            "timedout"))]
    /\ UNCHANGED <<clients, mutex, heap, down>>

\* (*newClient.receiver).Header().Add("content-disposition", ...)
UHeader(u) ==
    /\ up[u].pc = "header"
    /\ down' = [down EXCEPT ![heap[u].receiver].header = u]
    /\ up' = [up EXCEPT ![u].pc = "copy"]
    /\ UNCHANGED <<clients, mutex, heap>>

\* io.CopyBuffer(*newClient.receiver, io.LimitReader(bufrw, r.ContentLength),
\* *buffer): the destination is read once; the declared length is first used
\* here, so it is drawn here.
UCopyBegin(u) ==
    /\ up[u].pc = "copy"
    /\ \E n \in ContentLengths :
          up' = [up EXCEPT ![u].pc = "copying", ![u].dst = heap[u].receiver,
                           ![u].length = n]
    /\ UNCHANGED <<clients, mutex, heap, down>>

\* LimitN with the body read directly, without the limited reader.
LimitNUnlimited(length, nread) == bufferSize

\* io.LimitReader(bufrw, r.ContentLength): bytes the reader may still return.
LimitN(length, nread) == length - nread

\* The most one Read of the limited reader into the pooled buffer can return.
MaxChunk(body, length, nread) ==
    Min(bufferSize, Min(LimitN(length, nread), Len(body) - nread))

\* dst.Write(buf[0:nr])
WriteChunk(bytes, body, nread, n) == bytes \o SubSeq(body, nread + 1, nread + n)

\* One round of the copy loop: Read returns n >= 1 bytes, Write appends them.
UCopyChunk(u) ==
    /\ up[u].pc = "copying"
    /\ \E n \in 1..MaxChunk(Body, up[u].length, up[u].nread) :
          /\ down' = [down EXCEPT ![up[u].dst].bytes =
                        WriteChunk(@, Body, up[u].nread, n)]
          /\ up' = [up EXCEPT ![u].nread = @ + n]
    /\ UNCHANGED <<clients, mutex, heap>>

\* Read returns io.EOF: the copy succeeded, the success line is written.
UCopyEOF(u) ==
    /\ up[u].pc = "copying"
    /\ MaxChunk(Body, up[u].length, up[u].nread) <= 0
    /\ up' = [up EXCEPT ![u] =
                Flush(Write([@ EXCEPT !.pc = "defer", !.outcome = "Completed"],
                            "success"))]
    /\ UNCHANGED <<clients, mutex, heap, down>>

\* UCopyError without the return: the success line follows the error text.
UCopyErrorNoReturn(u) ==
    /\ up[u].pc = "copying"
    /\ up' = [up EXCEPT ![u] =
                Flush(Write(Flush(Write([@ EXCEPT !.pc = "defer",
                                                  !.outcome = "Failed"],
                                        "error")),
                            "success"))]
    /\ UNCHANGED <<clients, mutex, heap, down>>

\* Read or Write returns an error: the error text is written.
UCopyError(u) ==
    /\ up[u].pc = "copying"
    /\ up' = [up EXCEPT ![u] =
                Flush(Write([@ EXCEPT !.pc = "defer", !.outcome = "Failed"],
                            "error"))]
    /\ UNCHANGED <<clients, mutex, heap, down>>

\* Deferred newClient.downloadCompleted <- true: the channel operand is read.
UDeferEval(u) ==
    /\ up[u].pc = "defer"
    /\ up' = [up EXCEPT ![u].pc = "sending", ![u].ch = heap[u].downloadCompleted]
    /\ UNCHANGED <<clients, mutex, heap, down>>

\* The send on downloadCompleted together with <-client.downloadCompleted of
\* a download flow blocked on the same channel.
Complete(u, d) ==
    /\ up[u].pc = "sending"
    /\ down[d].pc = "recv"
    /\ up[u].ch # None
    /\ down[d].ch = up[u].ch
    /\ up' = [up EXCEPT ![u].pc = "delete"]
    /\ down' = [down EXCEPT ![d].pc = "done", ![d].result = "Received"]
    /\ UNCHANGED <<clients, mutex, heap>>

\* Deferred: Lock; delete(clients, fileID); Unlock.  The handler returns.
UDelete(u) ==
    /\ up[u].pc = "delete"
    /\ mutex = None
    /\ clients' = Delete(clients, up[u].fileID)
    /\ up' = [up EXCEPT ![u].pc = "done", ![u].removals = @ + 1]
    /\ UNCHANGED <<mutex, heap, down>>

----------------------------------------------------------------------------
\* Download (GET) flow.

\* DNotFound without the return: the flow goes on to wait for the transfer.
DNotFoundNoReturn(d) ==
    /\ down[d].pc = "lookup"
    /\ mutex = None
    /\ \E t \in Tokens :
          /\ ~Exists(clients, t)
          /\ down' = [down EXCEPT ![d].pc = "recv", ![d].fileName = t,
                                  ![d].result = "NotFound"]
    /\ UNCHANGED <<clients, mutex, heap, up>>

\* RLock; client, ok := clients[fileName]; RUnlock; !ok: http.NotFound.
DNotFound(d) ==
    /\ down[d].pc = "lookup"
    /\ mutex = None
    /\ \E t \in Tokens :
          /\ ~Exists(clients, t)
          /\ down' = [down EXCEPT ![d].pc = "done", ![d].fileName = t,
                                  ![d].result = "NotFound"]
    /\ UNCHANGED <<clients, mutex, heap, up>>

\* RLock; client, ok := clients[fileName]; RUnlock; ok.
DLookup(d) ==
    /\ down[d].pc = "lookup"
    /\ mutex = None
    /\ \E t \in Tokens :
          /\ Exists(clients, t)
          /\ down' = [down EXCEPT ![d].pc = "check", ![d].fileName = t,
                                  ![d].client = clients[t]]
    /\ UNCHANGED <<clients, mutex, heap, up>>

\* if !client.receiving, read without the mutex.
Receiving(c) == heap[c].receiving

\* DReject with the sink stored before the flag is tested.
DRejectStoresSink(d) ==
    /\ down[d].pc = "check"
    /\ Receiving(down[d].client)
    /\ heap' = [heap EXCEPT ![down[d].client].receiver = d]
    /\ down' = [down EXCEPT ![d].pc = "done", ![d].result = "AlreadyReceiving"]
    /\ UNCHANGED <<clients, mutex, up>>

\* client.receiving is true: "File already being received by another client."
DReject(d) ==
    /\ down[d].pc = "check"
    /\ Receiving(down[d].client)
    /\ down' = [down EXCEPT ![d].pc = "done", ![d].result = "AlreadyReceiving"]
    /\ UNCHANGED <<clients, mutex, heap, up>>

\* client.receiving is false: take the claiming branch.
DCheckOk(d) ==
    /\ down[d].pc = "check"
    /\ ~Receiving(down[d].client)
    /\ down' = [down EXCEPT ![d].pc = "lock"]
    /\ UNCHANGED <<clients, mutex, heap, up>>

\* clientsRWMutex.Lock(); client.receiver = &w
DLockSetReceiver(d) ==
    /\ down[d].pc = "lock"
    /\ mutex = None
    /\ mutex' = d
    /\ heap' = [heap EXCEPT ![down[d].client].receiver = d]
    /\ down' = [down EXCEPT ![d].pc = "setReceiving"]
    /\ UNCHANGED <<clients, up>>

\* client.receiving = true
DSetReceiving(d) ==
    /\ down[d].pc = "setReceiving"
    /\ heap' = [heap EXCEPT ![down[d].client].receiving = TRUE]
    /\ down' = [down EXCEPT ![d].pc = "setCompleted"]
    /\ UNCHANGED <<clients, mutex, up>>

\* DSetCompleted without the make: the channel is left nil.
DSetCompletedForgets(d) ==
    /\ down[d].pc = "setCompleted"
    /\ mutex' = None
    /\ down' = [down EXCEPT ![d].pc = "send"]
    /\ UNCHANGED <<clients, heap, up>>

\* client.downloadCompleted = make(chan bool); clientsRWMutex.Unlock()
DSetCompleted(d) ==
    /\ down[d].pc = "setCompleted"
    /\ heap' = [heap EXCEPT ![down[d].client].downloadCompleted = d]
    /\ mutex' = None
    /\ down' = [down EXCEPT ![d].pc = "send"]
    /\ UNCHANGED <<clients, up>>

\* <-client.downloadCompleted: the channel operand is read.
DWaitEval(d) ==
    /\ down[d].pc = "wait"
    /\ down' = [down EXCEPT ![d].pc = "recv",
                            ![d].ch = heap[down[d].client].downloadCompleted]
    /\ UNCHANGED <<clients, mutex, heap, up>>

----------------------------------------------------------------------------

UNext(u) ==
    \/ UUnauthorized(u) \/ UTokenError(u) \/ UGenerate(u)
    \/ UExists(u) \/ UCheckOk(u) \/ URegister(u)
    \/ UHijackFail(u) \/ UHijack(u) \/ ULink(u)
    \/ UDisconnected(u) \/ UTimeout(u)
    \/ UHeader(u) \/ UCopyBegin(u)
    \/ UCopyChunk(u) \/ UCopyEOF(u) \/ UCopyError(u)
    \/ UDeferEval(u) \/ UDelete(u)
    \/ \E d \in Downloads : Pair(u, d) \/ Complete(u, d)

DNext(d) ==
    \/ DNotFound(d) \/ DLookup(d) \/ DReject(d) \/ DCheckOk(d)
    \/ DLockSetReceiver(d) \/ DSetReceiving(d) \/ DSetCompleted(d)
    \/ DWaitEval(d)
    \/ \E u \in Uploads : Pair(u, d) \/ Complete(u, d)

Next ==
    \/ \E u \in Uploads : UNext(u)
    \/ \E d \in Downloads : DNext(d)

Spec == Init /\ [][Next]_vars

----------------------------------------------------------------------------
\* Derived notions used by the properties.

\* The download flow took the claiming branch (lines 194-199).
TookClaimBranch(d) ==
    \/ down[d].pc \in {"lock", "setReceiving", "setCompleted", "send", "wait", "recv"}
    \/ down[d].result = "Received"

\* The upload flow has registered its client and not yet run its deferred delete.
HoldsEntry(u) ==
    up[u].pc \in {"hijack", "link", "select", "header", "copy", "copying",
                  "defer", "sending", "delete"}

\* The upload flow registered a client at some point.
HasRegistered(u) ==
    \/ HoldsEntry(u)
    \/ up[u].pc = "done" /\ up[u].outcome \notin {"Unauthorized", "TokenError", "Exists"}

\* No step is possible any more: every flow has returned or is blocked for good.
Quiescent == ~ENABLED Next

----------------------------------------------------------------------------
\* C1: of the download flows that look up the same transfer, at most one
\* takes the claiming branch (observes receiving == false); the others are
\* rejected.
C1_AtMostOneClaims ==
    \A u \in Uploads :
        Cardinality({d \in Downloads : TookClaimBranch(d) /\ down[d].client = u}) <= 1

\* C2: when the upload flow copies, the sink it writes to and the completion
\* channel of its client were both stored by the download flow whose send on
\* clientConnected it received.
C2_FileGoesToWinner ==
    \A u \in Uploads :
        up[u].pc = "copying" =>
            /\ up[u].dst = up[u].peer
            /\ heap[u].downloadCompleted = up[u].peer

\* C3: every download flow returns: when no flow can take a step any more,
\* no download flow is left blocked.
C3_EveryDownloadReturns ==
    Quiescent => \A d \in Downloads : down[d].pc = "done"

\* C4: every upload flow returns and the registry ends empty: when no flow
\* can take a step any more, no upload flow is left blocked and no entry is
\* left in the registry.
C4_EveryUploadReturns ==
    Quiescent =>
        /\ \A u \in Uploads : up[u].pc = "done"
        /\ \A t \in Tokens : clients[t] = None

\* C5: from registration until its own removal, an upload flow's file ID
\* maps to the client it registered: the entry is not overwritten and not
\* deleted by another upload flow.
C5_EntryNotOverwritten ==
    \A u \in Uploads : HoldsEntry(u) => clients[up[u].fileID] = u

C7_ClaimExcludesTimeout ==
    \A u \in Uploads :
        up[u].outcome \in {"TimedOut", "Cancelled"} => ~heap[u].receiving

\* C8: when a transfer ends as Completed, the sink holds exactly the first
\* min(length of body, declared content length) bytes of the body, in order,
\* and no byte past the declared length was read.
C8_ByteFidelity ==
    \A u \in Uploads :
        up[u].outcome = "Completed" =>
            /\ down[up[u].dst].bytes = SubSeq(Body, 1, Min(Len(Body), up[u].length))
            /\ up[u].nread <= up[u].length

C8_Witness ==
    \E u \in Uploads :
        /\ up[u].outcome = "Completed"
        /\ up[u].length > 0
        /\ up[u].length < Len(Body)
        /\ down[up[u].dst].bytes = SubSeq(Body, 1, up[u].length)

\* The message sequences of an upload response while the flow is running.
ResponsePrefixes ==
    { <<>>, <<"link">>, <<"link", "connected">> }

\* The message sequences of an upload response whose last phase is written.
ResponsesEnded ==
    { <<"link", "disconnected">>, <<"link", "timedout">>,
      <<"link", "connected", "success">>, <<"link", "connected", "error">> }

\* C9: the messages of an upload response are the link, then one of
\* connected / disconnected / timed out, then, only after connected, one of
\* success / error; after disconnected or timed out nothing is copied.
C9_ResponsePhases ==
    \A u \in Uploads :
        /\ up[u].w \in ResponsePrefixes \cup ResponsesEnded
        /\ (up[u].pc \in {"defer", "sending", "delete", "done"} /\ up[u].w # <<>>)
              => up[u].w \in ResponsesEnded
        /\ (up[u].w \in {<<"link", "disconnected">>, <<"link", "timedout">>})
              => /\ up[u].nread = 0
                 /\ up[u].dst = None
                 /\ up[u].pc \in {"delete", "done"}
                 /\ \A d \in Downloads : down[d].client = u => down[d].bytes = <<>>

C9_Witness ==
    /\ \E u \in Uploads : up[u].pc = "done" /\ up[u].w = <<"link", "connected", "success">>
    /\ \E u \in Uploads : up[u].pc = "done" /\ up[u].w = <<"link", "timedout">>

\* C10: the step in which a download flow is rejected as already-in-progress
\* is taken with receiving == true and changes neither the registry, nor any
\* client field, nor any other flow.
C10_RejectChangesNothing ==
    [][\A d \in Downloads :
          (down[d].result # "AlreadyReceiving" /\ down'[d].result = "AlreadyReceiving")
             => /\ heap[down[d].client].receiving
                /\ clients' = clients
                /\ heap' = heap
                /\ mutex' = mutex
                /\ up' = up
                /\ \A e \in Downloads \ {d} : down'[e] = down[e]]_vars

C10_Witness ==
    \E d, e \in Downloads :
        /\ down[d].result = "AlreadyReceiving"
        /\ down[e].result = "Received"
        /\ down[e].client = down[d].client
        /\ up[down[d].client].outcome = "Completed"
        /\ down[e].bytes = SubSeq(Body, 1, Min(Len(Body), up[down[d].client].length))

----------------------------------------------------------------------------
\* Further derived notions.

\* The download flows that executed client.receiver = &w on client u.
StoredReceiver(u) ==
    {d \in Downloads :
        /\ down[d].client = u
        /\ \/ down[d].pc \in {"setReceiving", "setCompleted", "send", "wait", "recv"}
           \/ down[d].result = "Received"}

\* The download flows that executed client.receiving = true on client u.
StoredReceiving(u) ==
    {d \in Downloads :
        /\ down[d].client = u
        /\ \/ down[d].pc \in {"setCompleted", "send", "wait", "recv"}
           \/ down[d].result = "Received"}

\* The download flows that executed client.downloadCompleted = make(chan bool).
StoredCompleted(u) ==
    {d \in Downloads :
        /\ down[d].client = u
        /\ \/ down[d].pc \in {"send", "wait", "recv"}
           \/ down[d].result = "Received"}

\* The download flows that reached the send on u's clientConnected.
PairingSenders(u) ==
    {d \in Downloads :
        /\ down[d].client = u
        /\ \/ down[d].pc \in {"send", "wait", "recv"}
           \/ down[d].result = "Received"}

\* The download flows whose send on u's clientConnected was received.
PairingSent(u) ==
    {d \in Downloads :
        /\ down[d].client = u
        /\ \/ down[d].pc \in {"wait", "recv"}
           \/ down[d].result = "Received"}

\* The download flows blocked on one of the channels of client u.
BlockedOn(u) ==
    {d \in Downloads : down[d].client = u /\ down[d].pc \in {"send", "wait", "recv"}}

\* The upload flow has wrapped its hijacked connection (line 150).
HasWrapper(u) ==
    \/ up[u].pc \in {"link", "select", "header", "copy", "copying", "defer", "sending"}
    \/ /\ up[u].pc \in {"delete", "done"}
       /\ up[u].outcome \in {"Cancelled", "TimedOut", "Completed", "Failed"}

\* Every message written through the wrapper so far, flushed or not.
Messages(u) == up[u].w \o up[u].buf

RECURSIVE SumLen(_)
\* The bytes the Write calls for these messages accepted.
SumLen(ms) == IF ms = <<>> THEN 0 ELSE MsgLen(Head(ms)) + SumLen(Tail(ms))

----------------------------------------------------------------------------
\* C11: the step in which a download flow is rejected as not-found is its
\* lookup of a file ID that has no entry; the flow returns in that step and
\* the step changes neither the registry, nor any client field, nor any
\* other flow; a lookup that goes on found an entry.
C11_NotFoundChangesNothing ==
    /\ [](\A d \in Downloads : down[d].result = "NotFound" => down[d].pc = "done")
    /\ [][\A d \in Downloads :
            /\ (down[d].result # "NotFound" /\ down'[d].result = "NotFound")
                 => /\ down[d].pc = "lookup"
                    /\ clients[down'[d].fileName] = None
                    /\ clients' = clients
                    /\ heap' = heap
                    /\ mutex' = mutex
                    /\ up' = up
                    /\ \A e \in Downloads \ {d} : down'[e] = down[e]
            /\ (down[d].pc = "lookup" /\ down'[d].pc = "check")
                 => clients[down'[d].fileName] = down'[d].client
                      /\ down'[d].client # None]_vars

C11_Witness ==
    \E d \in Downloads, u \in Uploads :
        /\ down[d].result = "NotFound"
        /\ up[u].fileID = down[d].fileName
        /\ up[u].pc = "done"
        /\ up[u].outcome = "TimedOut"

C13_EarlyErrorCreatesNothing ==
    /\ [](\A u \in Uploads :
            up[u].outcome \in {"Unauthorized", "TokenError"} =>
                /\ up[u].pc = "done"
                /\ up[u].fileID = None
                /\ up[u].removals = 0
                /\ \A t \in Tokens : clients[t] # u)
    /\ [][\A u \in Uploads :
            (up[u].outcome = "none"
                /\ up'[u].outcome \in {"Unauthorized", "TokenError"})
              => /\ clients' = clients
                 /\ heap' = heap
                 /\ mutex' = mutex
                 /\ down' = down]_vars

C13_Witness ==
    \E u, v \in Uploads :
        /\ up[u].outcome = "Unauthorized"
        /\ up[v].outcome = "Completed"
        /\ clients[up[v].fileID] = v

\* C14: once the upload flow has received the pairing signal, the client's
\* receiver and downloadCompleted are set wherever it reads them, and a
\* download flow at its pairing send has stored all three fields.
C14_FieldsSetBeforeUse ==
    /\ \A u \in Uploads :
          /\ up[u].pc \in {"header", "copy"} => heap[u].receiver # None
          /\ up[u].pc = "copying" => up[u].dst # None
          /\ up[u].pc = "defer" => heap[u].downloadCompleted # None
          /\ up[u].pc = "sending" => up[u].ch # None
    /\ \A d \in Downloads :
          down[d].pc = "send" =>
              /\ heap[down[d].client].receiver # None
              /\ heap[down[d].client].receiving
              /\ heap[down[d].client].downloadCompleted # None

C14_Witness ==
    \E u \in Uploads :
        /\ up[u].pc = "sending"
        /\ up[u].dst # None
        /\ up[u].ch # None
        /\ up[u].peer # None

\* C15: each of receiver, receiving and downloadCompleted of a client is
\* stored by at most one download flow.
C15_FieldsWrittenOnce ==
    \A u \in Uploads :
        /\ Cardinality(StoredReceiver(u)) <= 1
        /\ Cardinality(StoredReceiving(u)) <= 1
        /\ Cardinality(StoredCompleted(u)) <= 1

\* C16: for every client at most one send on clientConnected is attempted
\* and at most one is received, and at most one download flow receives
\* from downloadCompleted.
C16_SignalsFireOnce ==
    \A u \in Uploads :
        /\ Cardinality(PairingSenders(u)) <= 1
        /\ Cardinality(PairingSent(u)) <= 1
        /\ Cardinality({d \in Downloads :
                           down[d].client = u /\ down[d].result = "Received"}) <= 1

\* C17: in the step in which an upload flow runs its removal, no download
\* flow is blocked on a channel of its client, and if the client is claimed
\* its pairing send has been received.
C17_RemovalAfterSignals ==
    [][\A u \in Uploads :
          (up[u].removals = 0 /\ up'[u].removals = 1) =>
              /\ BlockedOn(u) = {}
              /\ heap[u].receiving => up[u].peer # None]_vars

\* C18: after its terminal outcome is decided the upload flow always has an
\* enabled step, waiting at most for the mutex: its completion send never
\* waits for a download flow.
C18_NoSuspendAfterOutcome ==
    \A u \in Uploads :
        up[u].pc \in {"defer", "sending", "delete"} =>
            \/ ENABLED UNext(u)
            \/ up[u].pc = "delete" /\ mutex # None

\* C19: wherever the upload flow can block, and when it has returned, no
\* message it wrote is left unflushed, and the connection has received
\* every phase written so far.
C19_PhasesFlushed ==
    \A u \in Uploads :
        /\ up[u].buf = <<>>
        /\ up[u].pc = "select" => Len(up[u].w) = 1
        /\ up[u].pc \in {"header", "copy", "copying"} => Len(up[u].w) = 2
        /\ up[u].pc \in {"defer", "sending"} => Len(up[u].w) = 3
        /\ (up[u].pc \in {"delete", "done"} /\ HasWrapper(u)) => Len(up[u].w) \in {2, 3}

C19_Witness ==
    \E u \in Uploads :
        /\ up[u].pc = "sending"
        /\ up[u].w = <<"link", "connected", "success">>
        /\ up[u].buf = <<>>

\* C20: the wrapper reports Written() exactly when a Write has happened,
\* the first Write passed the status on, and Size() is the number of bytes
\* the Write calls accepted.
C20_WrapperTracksWritten ==
    \A u \in Uploads :
        HasWrapper(u) =>
            /\ Written(up[u]) <=> Messages(u) # <<>>
            /\ Messages(u) # <<>> =>
                  /\ up[u].emitted
                  /\ Size(up[u]) = SumLen(Messages(u))

====
